---- MODULE Spec2Model ----
(***************************************************************************)
(* AgritradeHub backend: the registration / authentication /               *)
(* session-authorization flow of the stateless JSON API (server.js) and of *)
(* the session-based EJS variant (unnamed/part_002), both of which talk to *)
(* the same PostgreSQL schema (users, products, session).                  *)
(***************************************************************************)
EXTENDS Integers, Sequences, FiniteSets, TLC

\* ------------------------------------------------------------------ bounds

\* Largest value users_id_seq hands out in a run.
MaxUserId == 3
\* Number of products added through POST /add-product in a run.
MaxAdded == 1
\* Number of session ids the store ever holds in a run.
MaxSid == 2
\* Number of clock steps in a run (each step is half the cookie max-age).
MaxTicks == 3
\* Number of session-variant requests that may be in flight at once.
MaxInflight == 2
\* Number of times a server process is started against the same store in a run.
MaxStarts == 2
\* Number of POST /api/register requests that may be in flight at once.
MaxPending == 2
\* Number of failed store operations a run records.
MaxFaults == 2
\* Number of redirects a client follows before it gives up.
MaxHops == 4

\* ------------------------------------------------------- program constants

\* bcrypt.hash(password, 10)
SaltRounds == 10
\* name VARCHAR(100)
NameWidth == 100
\* cookie: { maxAge: 30 * 24 * 60 * 60 * 1000 }, in days
MaxAgeDays == 30

\* ------------------------------------------------------------ input values

\* A string of NameWidth + 1 characters.
LongName == "N*101"
\* JavaScript falsy body fields (undefined, "") are all written "".
Names == {"", "Asha", LongName}
Emails == {"", "a@x", "b@x"}
Passwords == {"", "pw1", "pw2"}
RoleInputs == {"", "farm", "admin"}
\* err.code of a failed pool.query: the connection is lost, the statement
\* names a relation that is not there.
StoreErrors == {"08006", "42P01"}
Salts == {"s1"}

Falsy(v) == v = ""

\* Number of characters of a name of the input set.
Chars(s) == IF s = LongName THEN NameWidth + 1 ELSE IF s = "" THEN 0 ELSE 4

\* ------------------------------------------------------------------ values

NoUser == [none |-> TRUE]
NoCookie == [sid |-> 0, expires |-> 0]

\* The {id, name, email, role} projection of a users row.
Principal(row) ==
  [id |-> row.id, name |-> row.name, email |-> row.email, role |-> row.role]

\* The {id, name, email} projection of a users row.
Listed(row) == [id |-> row.id, name |-> row.name, email |-> row.email]

\* bcrypt: a salted one-way digest; the salt is embedded in the output.
BcryptHash(password, salt) ==
  [cost |-> SaltRounds, salt |-> salt, digest |-> <<salt, SaltRounds, password>>]

BcryptCompare(password, hash) ==
  BcryptHash(password, hash.salt).digest = hash.digest

\* A response: status, rendered view, message or error text, redirect target,
\* the user object and the rows handed to the body or the template, and the
\* Set-Cookie header.
Response(status, view, text, location, user, rows, cookie) ==
  [status |-> status, view |-> view, text |-> text, location |-> location,
   user |-> user, rows |-> rows, cookie |-> cookie]

\* res.status(n).json({message | error, user}) and res.json(rows)
Json(status, text, user, rows) ==
  Response(status, "", text, "", user, rows, NoCookie)

\* res.redirect(location)
Redirect(location) == Response(302, "", "", location, NoUser, <<>>, NoCookie)

\* res.status(n).send(text)
Send(status, text) == Response(status, "", text, "", NoUser, <<>>, NoCookie)

\* res.render(view, {error, user, rows})
Render(view, error, user, rows) ==
  Response(200, view, error, "", user, rows, NoCookie)

\* SELECT * FROM users WHERE email=$1
UsersByEmail(U, email) == SelectSeq(U, LAMBDA r : r.email = email)

\* A faulty variant: the email column has no UNIQUE constraint.
InsertUserNoUnique(U, seq, name, email, hash, role) ==
  IF Chars(name) > NameWidth
  THEN [code |-> "22001", users |-> U, seq |-> seq, row |-> NoUser]
  ELSE LET row == [id |-> seq, name |-> name, email |-> email,
                   password_hash |-> hash, role |-> role]
       IN [code |-> "ok", users |-> Append(U, row), seq |-> seq + 1,
           row |-> Principal(row)]

\* A faulty variant: ON CONFLICT (email) DO UPDATE overwrites the stored hash.
InsertUserUpsert(U, seq, name, email, hash, role) ==
  IF Chars(name) > NameWidth
  THEN [code |-> "22001", users |-> U, seq |-> seq, row |-> NoUser]
  ELSE IF UsersByEmail(U, email) # <<>>
  THEN [code |-> "23505",
        users |-> [i \in 1..Len(U) |->
                     IF U[i].email = email
                     THEN [U[i] EXCEPT !.password_hash = hash] ELSE U[i]],
        seq |-> seq + 1, row |-> NoUser]
  ELSE LET row == [id |-> seq, name |-> name, email |-> email,
                   password_hash |-> hash, role |-> role]
       IN [code |-> "ok", users |-> Append(U, row), seq |-> seq + 1,
           row |-> Principal(row)]

\* INSERT INTO users (name, email, password_hash[, role]) ... RETURNING ...
\* The column width is checked when the row is formed, the UNIQUE index when it
\* is inserted; a row that reaches the index has already drawn its id.
InsertUser(U, seq, name, email, hash, role) ==
  IF Chars(name) > NameWidth
  THEN [code |-> "22001", users |-> U, seq |-> seq, row |-> NoUser]
  ELSE IF UsersByEmail(U, email) # <<>>
  THEN [code |-> "23505", users |-> U, seq |-> seq + 1, row |-> NoUser]
  ELSE LET row == [id |-> seq, name |-> name, email |-> email,
                   password_hash |-> hash, role |-> role]
       IN [code |-> "ok", users |-> Append(U, row), seq |-> seq + 1,
           row |-> Principal(row)]

\* ------------------------------------------------------------- JSON API

\* A faulty variant: the catch block sends the error it caught.
ApiCatchLeaks(code) == Json(500, code, NoUser, <<>>)

\* catch (err) { console.error(err); res.status(500).json({error: ...}) } of
\* /api/login, /api/users and /api/products
ApiCatch(code) == Json(500, "Internal server error", NoUser, <<>>)

\* The catch block of /api/register.
ApiRegisterCatch(code) ==
  IF code = "23505"
  THEN Json(409, "Email already registered", NoUser, <<>>)
  ELSE Json(500, "Internal server error", NoUser, <<>>)

\* A faulty variant: the response is sent while the INSERT is still running.
ApiInsertUserUnawaited(U, seq, body, hash) ==
  LET ins == InsertUser(U, seq, body.name, body.email, hash, "user")
  IN [users |-> U, seq |-> seq,
      resp |-> IF ins.code = "ok"
               THEN Json(201, "User registered successfully", ins.row, <<>>)
               ELSE ApiRegisterCatch(ins.code)]

\* app.post("/api/register") from its INSERT on: the statement, then the
\* response or the catch block.
ApiInsertUser(U, seq, body, hash) ==
  LET ins == InsertUser(U, seq, body.name, body.email, hash, "user")
  IN [users |-> ins.users, seq |-> ins.seq,
      resp |-> IF ins.code = "ok"
               THEN Json(201, "User registered successfully", ins.row, <<>>)
               ELSE ApiRegisterCatch(ins.code)]

\* A request handler of the JSON API whose pool.query fails with code.
ApiCaught(route, code) ==
  IF route = "POST /api/register" THEN ApiRegisterCatch(code) ELSE ApiCatch(code)

\* app.post("/api/register")
ApiRegister(U, seq, body, salt) ==
  IF Falsy(body.name) \/ Falsy(body.email) \/ Falsy(body.password)
  THEN [users |-> U, seq |-> seq,
        resp |-> Json(400, "Name, email, and password are required.", NoUser, <<>>)]
  ELSE ApiInsertUser(U, seq, body, BcryptHash(body.password, salt))

\* A faulty variant: the unknown-email branch tells the client so.
ApiUnknownEmailTold == Json(404, "User not found", NoUser, <<>>)

\* if (userResult.rows.length === 0) return res.status(401)...
ApiUnknownEmail == Json(401, "Invalid credentials", NoUser, <<>>)

\* if (!isValid) return res.status(401)...
ApiWrongPassword == Json(401, "Invalid credentials", NoUser, <<>>)

\* A faulty variant: the whole row of SELECT * is sent back.
LoginUserWholeRow(row) == row

\* user: { id: user.id, name: user.name, email: user.email, role: user.role }
LoginUser(row) == Principal(row)

\* app.post("/api/login")
ApiLogin(U, body) ==
  IF Falsy(body.email) \/ Falsy(body.password)
  THEN Json(400, "Email and password required", NoUser, <<>>)
  ELSE LET found == UsersByEmail(U, body.email)
       IN IF Len(found) = 0
          THEN ApiUnknownEmail
          ELSE IF ~BcryptCompare(body.password, found[1].password_hash)
          THEN ApiWrongPassword
          ELSE Json(200, "Login successful", LoginUser(found[1]), <<>>)

\* The operations app.post("/api/login") and app.post("/login") await before
\* they respond, in order: the handler returns on the first failing check.
LoginWork(U, body) ==
  IF Falsy(body.email) \/ Falsy(body.password)
  THEN <<>>
  ELSE IF Len(UsersByEmail(U, body.email)) = 0
  THEN <<"SELECT * FROM users WHERE email=$1">>
  ELSE <<"SELECT * FROM users WHERE email=$1", "bcrypt.compare">>

\* app.get("/api/users"): SELECT id, name, email FROM users ORDER BY id
ApiUsers(U) == Json(200, "", NoUser, [i \in 1..Len(U) |-> Listed(U[i])])

\* The id, name, price, image_url columns of a products row.
ProductListed(row) ==
  [id |-> row.id, name |-> row.name, price |-> row.price, image_url |-> row.image_url]

\* app.get("/api/products")
ApiProducts(P) == Json(200, "", NoUser, [i \in 1..Len(P) |-> ProductListed(P[i])])

\* ------------------------------------------------------ session variant

\* The six rows of seedProducts, in order.
SeedProducts ==
  << [name |-> "Organic Apples", price |-> "$2.50/lb", image_url |-> "Apples"],
     [name |-> "Fresh Carrots", price |-> "$1.80/lb", image_url |-> "Carrots"],
     [name |-> "Farm Eggs", price |-> "$4.00/dozen", image_url |-> "Eggs"],
     [name |-> "Local Honey", price |-> "$8.00/jar", image_url |-> "Honey"],
     [name |-> "Red Potatoes", price |-> "$2.00/lb", image_url |-> "Potatoes"],
     [name |-> "Heirloom Tomatoes", price |-> "$3.50/lb", image_url |-> "Tomatoes"] >>

\* INSERT INTO products (name, price, image_url) VALUES ($1, $2, $3)
InsertProduct(P, seq, item) ==
  Append(P, [id |-> seq, name |-> item.name, price |-> item.price,
             image_url |-> item.image_url])

\* What a handler leaves behind: the tables, req.session.user, whether it called
\* req.session.destroy, and the response it wrote.
Out(D, user, destroy, resp) ==
  [db |-> D, user |-> user, destroy |-> destroy, resp |-> resp]

\* app.get("/")
Home(D, user) ==
  IF user # NoUser
  THEN IF user.role = "farm"
       THEN Out(D, user, FALSE, Redirect("/farm/dashboard"))
       ELSE Out(D, user, FALSE, Redirect("/user/dashboard"))
  ELSE Out(D, user, FALSE, Render("login.ejs", "", NoUser, <<>>))

\* app.get("/register")
RegisterPage(D, user) ==
  Out(D, user, FALSE, Render("register.ejs", "", NoUser, <<>>))

\* A faulty variant: the login page sends a client that has a session home.
LoginPageBounces(D, user, error) ==
  IF user # NoUser
  THEN Out(D, user, FALSE, Redirect("/"))
  ELSE Out(D, user, FALSE, Render("login.ejs", "", NoUser, <<>>))

\* app.get("/login")
LoginPage(D, user, error) ==
  Out(D, user, FALSE,
      Render("login.ejs",
             IF Falsy(error) THEN ""
             ELSE "Invalid credentials or email already in use.",
             NoUser, <<>>))

\* A faulty variant: the gate only asks for a session.
UserGateAnyRole(user) == user = NoUser

\* if (!req.session.user || req.session.user.role !== 'user')
UserGate(user) == user = NoUser \/ user.role # "user"

\* if (!req.session.user || req.session.user.role !== 'farm')
FarmGate(user) == user = NoUser \/ user.role # "farm"

\* A faulty variant: the gate only asks for a session.
AddProductGateAnyRole(user) == user = NoUser

\* if (!req.session.user || req.session.user.role !== 'farm')
AddProductGate(user) == user = NoUser \/ user.role # "farm"

\* app.get("/user/dashboard")
UserDashboard(D, user) ==
  IF UserGate(user)
  THEN Out(D, user, FALSE, Redirect("/login?error=Unauthorized access"))
  ELSE Out(D, user, FALSE, Render("user_dashboard.ejs", "", user, D.products))

\* app.get("/farm/dashboard")
FarmDashboard(D, user) ==
  IF FarmGate(user)
  THEN Out(D, user, FALSE, Redirect("/login?error=Unauthorized access"))
  ELSE Out(D, user, FALSE,
           Render("farm_dashboard.ejs", "", user,
                  [i \in 1..Len(D.users) |-> Principal(D.users[i])]))

\* app.post("/logout")
Logout(D, user) == Out(D, NoUser, TRUE, Redirect("/login"))

\* [name, email, hashedPassword, role || 'user']
RoleOrDefault(role) == IF Falsy(role) THEN "user" ELSE role

\* The catch block of POST /register.
RegisterCatch(code) ==
  IF code = "23505"
  THEN Redirect("/register?error=Email already registered")
  ELSE Redirect("/register?error=Internal server error")

\* The catch block of POST /login.
LoginCatch(code) == Redirect("/login?error=Internal server error")

\* The catch block of the dashboards and of POST /add-product.
PageCatch(code) == Send(500, "Internal server error")

\* A faulty variant: a successful register leaves req.session as it was.
RegisterNoSession(D, user, body, salt) ==
  IF Falsy(body.name) \/ Falsy(body.email) \/ Falsy(body.password)
  THEN Out(D, user, FALSE,
           Redirect("/register?error=Name, email, and password are required."))
  ELSE LET ins == InsertUser(D.users, D.useq, body.name, body.email,
                             BcryptHash(body.password, salt),
                             RoleOrDefault(body.role))
           D2 == [D EXCEPT !.users = ins.users, !.useq = ins.seq]
       IN IF ins.code = "ok"
          THEN Out(D2, user, FALSE, Redirect("/user/dashboard"))
          ELSE Out(D2, user, FALSE, RegisterCatch(ins.code))

\* app.post("/register")
Register(D, user, body, salt) ==
  IF Falsy(body.name) \/ Falsy(body.email) \/ Falsy(body.password)
  THEN Out(D, user, FALSE,
           Redirect("/register?error=Name, email, and password are required."))
  ELSE LET ins == InsertUser(D.users, D.useq, body.name, body.email,
                             BcryptHash(body.password, salt),
                             RoleOrDefault(body.role))
           D2 == [D EXCEPT !.users = ins.users, !.useq = ins.seq]
       IN IF ins.code = "ok"
          THEN Out(D2, ins.row, FALSE, Redirect("/user/dashboard"))
          ELSE Out(D2, user, FALSE, RegisterCatch(ins.code))

\* if (userResult.rows.length === 0) return res.redirect(...)
UnknownEmail == Redirect("/login?error=Invalid credentials")

\* if (!isValid) return res.redirect(...)
WrongPassword == Redirect("/login?error=Invalid credentials")

\* A faulty variant: the session is given the default role, not the row's.
SessionUserDefaultRole(row) == [Principal(row) EXCEPT !.role = "user"]

\* req.session.user = { id: user.id, name: user.name, email: user.email, role: user.role }
SessionUser(row) == Principal(row)

\* A faulty variant: the wrong-password branch does not return, so the
\* session is set all the same.
LoginFallsThrough(D, user, body) ==
  IF Falsy(body.email) \/ Falsy(body.password)
  THEN Out(D, user, FALSE, Redirect("/login?error=Email and password required"))
  ELSE LET found == UsersByEmail(D.users, body.email)
       IN IF Len(found) = 0
          THEN Out(D, user, FALSE, UnknownEmail)
          ELSE Out(D, SessionUser(found[1]), FALSE,
                   IF ~BcryptCompare(body.password, found[1].password_hash)
                   THEN WrongPassword
                   ELSE IF found[1].role = "farm"
                   THEN Redirect("/farm/dashboard")
                   ELSE Redirect("/user/dashboard"))

\* app.post("/login")
Login(D, user, body) ==
  IF Falsy(body.email) \/ Falsy(body.password)
  THEN Out(D, user, FALSE, Redirect("/login?error=Email and password required"))
  ELSE LET found == UsersByEmail(D.users, body.email)
       IN IF Len(found) = 0
          THEN Out(D, user, FALSE, UnknownEmail)
          ELSE IF ~BcryptCompare(body.password, found[1].password_hash)
          THEN Out(D, user, FALSE, WrongPassword)
          ELSE Out(D, SessionUser(found[1]), FALSE,
                   IF found[1].role = "farm"
                   THEN Redirect("/farm/dashboard")
                   ELSE Redirect("/user/dashboard"))

\* A faulty variant: the body is validated before the session is looked at.
AddProductValidatesFirst(D, user, body) ==
  IF Falsy(body.name) \/ Falsy(body.price) \/ Falsy(body.image_url)
  THEN Out(D, user, FALSE, Send(400, "Name, price, and image URL are required."))
  ELSE IF AddProductGate(user)
  THEN Out(D, user, FALSE, Send(403, "Unauthorized"))
  ELSE Out([D EXCEPT !.products = InsertProduct(D.products, D.pseq, body),
                     !.pseq = D.pseq + 1],
           user, FALSE, Redirect("/farm/dashboard"))

\* app.post("/add-product")
AddProduct(D, user, body) ==
  IF AddProductGate(user)
  THEN Out(D, user, FALSE, Send(403, "Unauthorized"))
  ELSE IF Falsy(body.name) \/ Falsy(body.price) \/ Falsy(body.image_url)
  THEN Out(D, user, FALSE, Send(400, "Name, price, and image URL are required."))
  ELSE Out([D EXCEPT !.products = InsertProduct(D.products, D.pseq, body),
                     !.pseq = D.pseq + 1],
           user, FALSE, Redirect("/farm/dashboard"))

\* ---------------------------------------------------- session middleware

NoRow == [none |-> TRUE]
NoBody == [empty |-> TRUE]
Idle == [busy |-> FALSE, tok |-> 0, sid |-> 0, user |-> NoUser]

\* The session options: rolling is not set, so it is off.
Rolling == FALSE

\* cookie.expires after req.session.touch(): the time of the response plus maxAge.
Expires(t) == t + MaxAgeDays

\* A faulty variant: store.get does not look at expire.
LoadSessionNoExpiry(S, tok, t) ==
  IF tok \in DOMAIN S /\ S[tok] # NoRow
  THEN [busy |-> TRUE, tok |-> tok, sid |-> tok, user |-> S[tok].user]
  ELSE [busy |-> TRUE, tok |-> tok, sid |-> 0, user |-> NoUser]

\* The middleware's store.get(sid) at the start of a request that presents the
\* cookie tok: a row is found only while its expire has not passed; with no row
\* found the request gets a fresh, empty session (sid 0: no id kept so far).
LoadSession(S, tok, t) ==
  IF tok \in DOMAIN S /\ S[tok] # NoRow /\ S[tok].expire >= t
  THEN [busy |-> TRUE, tok |-> tok, sid |-> tok, user |-> S[tok].user]
  ELSE [busy |-> TRUE, tok |-> tok, sid |-> 0, user |-> NoUser]

\* store.touch(sid, session): UPDATE session SET expire = ... WHERE sid = ...
Touch(S, sid, t) ==
  IF S[sid] # NoRow THEN [S EXCEPT ![sid].expire = Expires(t)] ELSE S

\* store.set(sid, session): INSERT ... ON CONFLICT (sid) DO UPDATE
StoreSet(S, sid, user, t) ==
  IF sid \in DOMAIN S
  THEN [S EXCEPT ![sid] = [user |-> user, expire |-> Expires(t)]]
  ELSE S

\* store.destroy(sid): DELETE FROM session WHERE sid = ...
StoreDestroy(S, sid) == IF sid # 0 THEN [S EXCEPT ![sid] = NoRow] ELSE S

\* The middleware at the end of the response (resave: false,
\* saveUninitialized: false): a destroyed session is gone; a session whose data
\* changed is saved under its id (a fresh session draws its id now) and its
\* cookie is set; an unchanged session loaded from the store is touched.
ResEnd(S, sseq, req, out, t) ==
  IF out.destroy
  THEN [sessions |-> StoreDestroy(S, req.sid), sseq |-> sseq, cookie |-> NoCookie]
  ELSE IF out.user # req.user
  THEN LET sid == IF req.sid # 0 THEN req.sid ELSE sseq
       IN [sessions |-> StoreSet(S, sid, out.user, t),
           sseq |-> IF req.sid # 0 THEN sseq ELSE sseq + 1,
           cookie |-> [sid |-> sid, expires |-> Expires(t)]]
  ELSE IF req.sid # 0
  THEN [sessions |-> Touch(S, req.sid, t), sseq |-> sseq,
        cookie |-> IF Rolling
                   THEN [sid |-> req.sid, expires |-> Expires(t)]
                   ELSE NoCookie]
  ELSE [sessions |-> S, sseq |-> sseq, cookie |-> NoCookie]

\* The request router of the session variant: route -> handler.
Handle(route, D, user, body, salt) ==
  CASE route = "GET /" -> Home(D, user)
    [] route = "GET /register" -> RegisterPage(D, user)
    [] route = "GET /login" -> LoginPage(D, user, body.error)
    [] route = "GET /user/dashboard" -> UserDashboard(D, user)
    [] route = "GET /farm/dashboard" -> FarmDashboard(D, user)
    [] route = "POST /logout" -> Logout(D, user)
    [] route = "POST /register" -> Register(D, user, body, salt)
    [] route = "POST /login" -> Login(D, user, body)
    [] route = "POST /add-product" -> AddProduct(D, user, body)

\* One request of the session variant from the loaded session req to the end of
\* its response at time t: the tables, the session table and the response.
Served(out, end) ==
  [db |-> out.db, sessions |-> end.sessions, sseq |-> end.sseq,
   destroy |-> out.destroy,
   resp |-> [out.resp EXCEPT !.cookie = end.cookie]]

Serve(route, D, S, sseq, req, body, salt, t) ==
  LET out == Handle(route, D, req.user, body, salt)
  IN Served(out, ResEnd(S, sseq, req, out, t))

\* The routes whose handler awaits the store, and whether a request gets as
\* far as that await: past the gate and past the validation.
QueryRoutes ==
  {"GET /user/dashboard", "GET /farm/dashboard", "POST /logout",
   "POST /register", "POST /login", "POST /add-product"}

ReachesStore(route, user, body) ==
  CASE route = "GET /user/dashboard" -> ~UserGate(user)
    [] route = "GET /farm/dashboard" -> ~FarmGate(user)
    [] route = "POST /logout" -> TRUE
    [] route = "POST /register" ->
         ~(Falsy(body.name) \/ Falsy(body.email) \/ Falsy(body.password))
    [] route = "POST /login" -> ~(Falsy(body.email) \/ Falsy(body.password))
    [] route = "POST /add-product" ->
         /\ ~AddProductGate(user)
         /\ ~(Falsy(body.name) \/ Falsy(body.price) \/ Falsy(body.image_url))

\* The handler of route when the store operation it awaits fails with code:
\* its catch block answers; req.session.destroy hands its error to the
\* callback of POST /logout.
Caught(route, D, user, code) ==
  CASE route = "POST /register" -> Out(D, user, FALSE, RegisterCatch(code))
    [] route = "POST /login" -> Out(D, user, FALSE, LoginCatch(code))
    [] route = "POST /logout" -> Out(D, user, FALSE, Send(500, "Could not log out."))
    [] OTHER -> Out(D, user, FALSE, PageCatch(code))

ServeFailed(route, D, S, sseq, req, code, t) ==
  LET out == Caught(route, D, req.user, code)
  IN Served(out, ResEnd(S, sseq, req, out, t))

\* ---------------------------------------------------------------- startup

\* The three servers: server.js and unnamed/part_002 start through startServer,
\* unnamed/part_001 calls initializeDB, seedProducts and app.listen at module
\* level without awaiting any of them.
Variants == {"server.js", "part_001", "part_002"}
Awaited == {"server.js", "part_002"}

\* The relations a store holds once every initializeDB has run.
Relations == {"users", "products", "session", "IDX_session_expire"}

\* The pool.query calls of initializeDB, in order.
InitializeDB(variant) ==
  IF variant = "part_002"
  THEN <<"users", "products", "session">>
  ELSE <<"users", "products">>

\* One pool.query of initializeDB against the relations the store holds.
\* CREATE TABLE IF NOT EXISTS never fails; the session statement also runs
\* CREATE INDEX "IDX_session_expire", which fails with 42P07 when the index
\* is there, and the whole query is then rolled back.
CreateTables(schema, statement) ==
  IF statement = "session"
  THEN IF "IDX_session_expire" \in schema
       THEN [code |-> "42P07", schema |-> schema]
       ELSE [code |-> "ok",
             schema |-> schema \cup {"session", "IDX_session_expire"}]
  ELSE [code |-> "ok", schema |-> schema \cup {statement}]

\* One INSERT INTO products ... ON CONFLICT DO NOTHING of seedProducts: 42P01
\* when the table is not there; the only unique column of products is its
\* SERIAL id, so no row ever conflicts and the row is always inserted.
SeedInsert(schema, P, seq, item) ==
  IF "products" \notin schema
  THEN [code |-> "42P01", products |-> P, seq |-> seq]
  ELSE [code |-> "ok", products |-> InsertProduct(P, seq, item), seq |-> seq + 1]

\* A server process: whether it runs, where startServer stands, the next
\* statement of initializeDB and of seedProducts (0: not called, -1: rejected),
\* whether the listener is bound, the startup calls that completed, in order,
\* and how many times the process was started.
Process(main, init, seed, listening, log, starts) ==
  [main |-> main, init |-> init, seed |-> seed, listening |-> listening,
   log |-> log, starts |-> starts]

Off == Process("off", 0, 0, FALSE, <<>>, 0)

\* The process as node has just loaded the module: startServer() is at its
\* first await; part_001 has called initializeDB(), seedProducts() and
\* app.listen() one after the other.
Started(variant, starts) ==
  IF variant \in Awaited
  THEN Process("probe", 0, 0, FALSE, <<>>, starts)
  ELSE Process("done", 1, 1, TRUE, <<"listen">>, starts)

\* The process once its startup has completed.
Serving(variant) ==
  IF variant \in Awaited
  THEN Process("done", Len(InitializeDB(variant)) + 1, Len(SeedProducts) + 1, TRUE,
               <<"testDBConnection", "initializeDB", "seedProducts", "listen">>, 1)
  ELSE Off

\* A faulty variant: a failed probe is logged and startServer goes on.
ProbedNoExit(p, ok) ==
  [p EXCEPT !.main = "init", !.init = 1,
            !.log = IF ok THEN Append(p.log, "testDBConnection") ELSE p.log]

\* await testDBConnection(): process.exit(1) when the probe query fails.
Probed(p, ok) ==
  IF ok
  THEN [p EXCEPT !.main = "init", !.init = 1,
                 !.log = Append(p.log, "testDBConnection")]
  ELSE [p EXCEPT !.main = "exited"]

\* One statement of initializeDB has returned with code.  A rejection ends
\* startServer (nothing catches it, the listener is never bound); in part_001
\* it is caught and logged.
Initialized(variant, p, code) ==
  IF code # "ok"
  THEN IF variant \in Awaited
       THEN [p EXCEPT !.main = "crashed", !.init = -1]
       ELSE [p EXCEPT !.init = -1]
  ELSE IF p.init < Len(InitializeDB(variant))
  THEN [p EXCEPT !.init = p.init + 1]
  ELSE IF variant \in Awaited
  THEN [p EXCEPT !.init = p.init + 1, !.main = "seed", !.seed = 1,
                 !.log = Append(p.log, "initializeDB")]
  ELSE [p EXCEPT !.init = p.init + 1, !.log = Append(p.log, "initializeDB")]

\* One insert of seedProducts has returned with code.
Seeded(variant, p, code) ==
  IF code # "ok"
  THEN IF variant \in Awaited
       THEN [p EXCEPT !.main = "crashed", !.seed = -1]
       ELSE [p EXCEPT !.seed = -1]
  ELSE IF p.seed < Len(SeedProducts)
  THEN [p EXCEPT !.seed = p.seed + 1]
  ELSE IF variant \in Awaited
  THEN [p EXCEPT !.seed = p.seed + 1, !.main = "listen",
                 !.log = Append(p.log, "seedProducts")]
  ELSE [p EXCEPT !.seed = p.seed + 1, !.log = Append(p.log, "seedProducts")]

\* app.listen(port)
Listening(p) ==
  [p EXCEPT !.main = "done", !.listening = TRUE, !.log = Append(p.log, "listen")]

\* A faulty variant: the sessions live in the memory of the server process.
MemoryStore(S) == [sid \in DOMAIN S |-> NoRow]

\* store: new pgSession({pool, tableName: 'session'}): the sessions a new
\* process finds are the rows of the session table.
pgSession(S) == S

\* A POST /api/register between its await bcrypt.hash and its INSERT.
NoPending == [busy |-> FALSE, body |-> NoBody, hash |-> NoBody]

\* ------------------------------------------------------------------ state

VARIABLES
  users,       \* the users table, in id order
  userSeq,     \* users_id_seq: the next id
  products,    \* the products table, in id order
  productSeq,  \* products_id_seq: the next id
  sessions,    \* the session table: sid -> [user, expire] or NoRow
  sidSeq,      \* the next fresh session id
  destroyed,   \* history: the sids POST /logout has destroyed
  now,         \* the clock, in days
  inflight,    \* the session-variant requests between session load and response
  schema,      \* the relations the store holds
  boot,        \* the server processes: variant -> Process
  faults,      \* history: the statements the store has rejected, by caller
  pending      \* the POST /api/register requests between hash and INSERT

vars ==
  <<users, userSeq, products, productSeq, sessions, sidSeq, destroyed, now,
    inflight, schema, boot, faults, pending>>

\* What a request that finds the tables in place leaves alone.
process == <<schema, boot, faults, pending>>

Slots == 1..MaxInflight
Sids == 1..MaxSid

RegisterBodies ==
  [name : Names, email : Emails, password : Passwords, role : RoleInputs]
ApiRegisterBodies == [name : Names, email : Emails, password : Passwords]
LoginBodies == [email : Emails, password : Passwords]
LoginQueries == [error : {"", "Unauthorized access"}]
ProductBodies ==
  [name : {"", "Kale"}, price : {"", "$3/lb"}, image_url : {"", "Kale.png"}]

\* Well-formed bodies only, for the runs that spend their states on sessions.
FormRegisterBodies ==
  [name : {"Asha"}, email : Emails \ {""}, password : {"pw1"}, role : {"", "farm"}]
FormLoginBodies == [email : Emails \ {""}, password : {"pw1"}]
FormProductBodies == [name : {"Kale"}, price : {"$3/lb"}, image_url : {"Kale.png"}]

\* The tables as one value.
DB ==
  [users |-> users, useq |-> userSeq, products |-> products,
   pseq |-> productSeq]

\* The cookies a client can present: none (0) or a sid a response has set.
Tokens == 0..(sidSeq - 1)

\* The state startServer leaves behind on an empty database: the tables exist
\* and seedProducts has inserted its six rows.
Init ==
  /\ users = <<>>
  /\ userSeq = 1
  /\ products = [i \in 1..Len(SeedProducts) |->
                   InsertProduct(<<>>, i, SeedProducts[i])[1]]
  /\ productSeq = Len(SeedProducts) + 1
  /\ sessions = [s \in Sids |-> NoRow]
  /\ sidSeq = 1
  /\ destroyed = {}
  /\ now = 0
  /\ inflight = [s \in Slots |-> Idle]
  /\ schema = Relations
  /\ boot = [v \in Variants |-> Serving(v)]
  /\ faults = {}
  /\ pending = [s \in 1..MaxPending |-> NoPending]

\* Time passes.
Tick ==
  /\ now < MaxTicks * (MaxAgeDays \div 2)
  /\ now' = now + (MaxAgeDays \div 2)
  /\ UNCHANGED <<users, userSeq, products, productSeq, sessions,
                 sidSeq, destroyed, inflight>>
  /\ UNCHANGED process

\* A JSON API request: the handler runs one statement against the store.
ApiAnswer(U, seq) ==
  /\ seq <= MaxUserId + 1
  /\ users' = U
  /\ userSeq' = seq
  /\ UNCHANGED <<products, productSeq, sessions, sidSeq, destroyed,
                 now, inflight>>
  /\ UNCHANGED process

PostApiRegister ==
  \E body \in ApiRegisterBodies, salt \in Salts :
    \E r \in {ApiRegister(users, userSeq, body, salt)} :
      ApiAnswer(r.users, r.seq)

PostApiLogin ==
  \E body \in LoginBodies :
    ApiLogin(users, body).status \in {200, 400, 401} /\ ApiAnswer(users, userSeq)

GetApiUsers == ApiUsers(users).status = 200 /\ ApiAnswer(users, userSeq)

GetApiProducts == ApiProducts(products).status = 200 /\ ApiAnswer(users, userSeq)

\* A request of the session variant arrives with the cookie tok and the
\* middleware loads its session; at most limit requests are in flight.
Accept(limit) ==
  \E slot \in Slots, tok \in Tokens :
    /\ ~inflight[slot].busy
    /\ \A other \in 1..(slot - 1) : inflight[other].busy
    /\ slot <= limit
    /\ inflight' = [inflight EXCEPT ![slot] = LoadSession(sessions, tok, now)]
    /\ UNCHANGED <<users, userSeq, products, productSeq, sessions,
                   sidSeq, destroyed, now>>
    /\ UNCHANGED process

\* The route handler of an in-flight request runs and the response ends.
Answer(slot, route, body, salt) ==
  \E req \in {inflight[slot]} :
  \E r \in {Serve(route, DB, sessions, sidSeq, req, body, salt, now)} :
     /\ r.db.useq <= MaxUserId + 1
     /\ Len(r.db.products) <= Len(SeedProducts) + MaxAdded
     /\ r.sseq <= MaxSid + 1
     /\ users' = r.db.users
     /\ userSeq' = r.db.useq
     /\ products' = r.db.products
     /\ productSeq' = r.db.pseq
     /\ sessions' = r.sessions
     /\ sidSeq' = r.sseq
     /\ destroyed' = IF r.destroy /\ req.sid # 0
                      THEN destroyed \cup {req.sid} ELSE destroyed
     /\ inflight' = [inflight EXCEPT ![slot] = Idle]
     /\ UNCHANGED now
     /\ UNCHANGED process

GetHome ==
  \E slot \in Slots :
    inflight[slot].busy /\ Answer(slot, "GET /", NoBody, "")

GetRegister ==
  \E slot \in Slots :
    inflight[slot].busy /\ Answer(slot, "GET /register", NoBody, "")

GetLogin ==
  \E slot \in Slots, query \in LoginQueries :
    inflight[slot].busy /\ Answer(slot, "GET /login", query, "")

GetUserDashboard ==
  \E slot \in Slots :
    inflight[slot].busy /\ Answer(slot, "GET /user/dashboard", NoBody, "")

GetFarmDashboard ==
  \E slot \in Slots :
    inflight[slot].busy /\ Answer(slot, "GET /farm/dashboard", NoBody, "")

PostLogout ==
  \E slot \in Slots :
    inflight[slot].busy /\ Answer(slot, "POST /logout", NoBody, "")

PostRegister(Bodies) ==
  \E slot \in Slots, body \in Bodies, salt \in Salts :
    inflight[slot].busy /\ Answer(slot, "POST /register", body, salt)

PostLogin(Bodies) ==
  \E slot \in Slots, body \in Bodies :
    inflight[slot].busy /\ Answer(slot, "POST /login", body, "")

PostAddProduct(Bodies) ==
  \E slot \in Slots, body \in Bodies :
    inflight[slot].busy /\ Answer(slot, "POST /add-product", body, "")

\* Every route of both variants, any body; the session variant answers one
\* request at a time and the clock stands still.
Next ==
  \/ PostApiRegister
  \/ PostApiLogin
  \/ GetApiUsers
  \/ GetApiProducts
  \/ Accept(1)
  \/ GetHome
  \/ GetRegister
  \/ GetLogin
  \/ GetUserDashboard
  \/ GetFarmDashboard
  \/ PostLogout
  \/ PostRegister(RegisterBodies)
  \/ PostLogin(LoginBodies)
  \/ PostAddProduct(ProductBodies)

Spec == Init /\ [][Next]_vars

\* The session variant with requests overlapping: a request's session is loaded
\* when it arrives and saved when its response ends, and other requests run in
\* between.
NextRace ==
  \/ Accept(MaxInflight)
  \/ GetHome
  \/ GetUserDashboard
  \/ GetFarmDashboard
  \/ PostLogout
  \/ PostRegister(FormRegisterBodies)
  \/ PostLogin(FormLoginBodies)
  \/ PostAddProduct(FormProductBodies)

SpecRace == Init /\ [][NextRace]_vars

\* The session variant while time passes.
NextClock ==
  \/ Tick
  \/ Accept(1)
  \/ GetUserDashboard
  \/ GetFarmDashboard
  \/ PostLogout
  \/ PostRegister(FormRegisterBodies)
  \/ PostLogin(FormLoginBodies)

SpecClock == Init /\ [][NextClock]_vars

\* The JSON API with registrations overlapping: a request awaits bcrypt.hash,
\* other requests run, then it awaits its INSERT.
RaceRegisterBodies ==
  [name : {"Asha", LongName}, email : Emails \ {""}, password : {"pw1"}]

BeginApiRegister ==
  \E slot \in 1..MaxPending, body \in RaceRegisterBodies, salt \in Salts :
    /\ ~pending[slot].busy
    /\ \A other \in 1..(slot - 1) : pending[other].busy
    /\ ~(Falsy(body.name) \/ Falsy(body.email) \/ Falsy(body.password))
    /\ pending' = [pending EXCEPT ![slot] =
                     [busy |-> TRUE, body |-> body,
                      hash |-> BcryptHash(body.password, salt)]]
    /\ UNCHANGED <<users, userSeq, products, productSeq, sessions, sidSeq,
                   destroyed, now, inflight, schema, boot, faults>>

EndApiRegister ==
  \E slot \in 1..MaxPending :
    /\ pending[slot].busy
    /\ \E r \in {ApiInsertUser(users, userSeq, pending[slot].body,
                               pending[slot].hash)} :
         /\ r.seq <= MaxUserId + 1
         /\ users' = r.users
         /\ userSeq' = r.seq
    /\ pending' = [pending EXCEPT ![slot] = NoPending]
    /\ UNCHANGED <<products, productSeq, sessions, sidSeq, destroyed, now,
                   inflight, schema, boot, faults>>

NextApiRace ==
  \/ BeginApiRegister
  \/ EndApiRegister

SpecApiRace == Init /\ [][NextApiRace]_vars

\* A server process started against an empty store.
InitBoot ==
  /\ users = <<>>
  /\ userSeq = 1
  /\ products = <<>>
  /\ productSeq = 1
  /\ sessions = [s \in Sids |-> NoRow]
  /\ sidSeq = 1
  /\ destroyed = {}
  /\ now = 0
  /\ inflight = [s \in Slots |-> Idle]
  /\ schema = {}
  /\ \E variant \in Variants :
       boot = [v \in Variants |-> IF v = variant THEN Started(v, 1) ELSE Off]
  /\ faults = {}
  /\ pending = [s \in 1..MaxPending |-> NoPending]

\* What a step of a process's startup leaves alone.
requests ==
  <<users, userSeq, sessions, sidSeq, destroyed, now, inflight, pending>>

\* await testDBConnection(): the store answers the probe or it does not.
TestDBConnection ==
  \E variant \in Awaited, ok \in BOOLEAN :
    /\ boot[variant].main = "probe"
    /\ boot' = [boot EXCEPT ![variant] = Probed(boot[variant], ok)]
    /\ UNCHANGED <<products, productSeq, schema, faults>>
    /\ UNCHANGED requests

\* The next pool.query of initializeDB runs.
InitializeDBStep ==
  \E variant \in Variants :
    /\ boot[variant].main \in {"init", "done"}
    /\ boot[variant].init \in 1..Len(InitializeDB(variant))
    /\ \E r \in {CreateTables(schema, InitializeDB(variant)[boot[variant].init])} :
         /\ schema' = r.schema
         /\ boot' = [boot EXCEPT ![variant] = Initialized(variant, boot[variant], r.code)]
         /\ faults' = IF r.code = "ok" THEN faults
                      ELSE faults \cup {[by |-> "initializeDB", code |-> r.code]}
    /\ UNCHANGED <<products, productSeq>>
    /\ UNCHANGED requests

\* The next pool.query of seedProducts runs.
SeedProductsStep ==
  \E variant \in Variants :
    /\ boot[variant].main \in {"seed", "done"}
    /\ boot[variant].seed \in 1..Len(SeedProducts)
    /\ \E r \in {SeedInsert(schema, products, productSeq,
                            SeedProducts[boot[variant].seed])} :
         /\ products' = r.products
         /\ productSeq' = r.seq
         /\ boot' = [boot EXCEPT ![variant] = Seeded(variant, boot[variant], r.code)]
         /\ faults' = IF r.code = "ok" THEN faults
                      ELSE faults \cup {[by |-> "seedProducts", code |-> r.code]}
    /\ UNCHANGED schema
    /\ UNCHANGED requests

\* app.listen(port) at the end of startServer.
Listen ==
  \E variant \in Awaited :
    /\ boot[variant].main = "listen"
    /\ boot' = [boot EXCEPT ![variant] = Listening(boot[variant])]
    /\ UNCHANGED <<products, productSeq, schema, faults>>
    /\ UNCHANGED requests

\* The process is stopped, or has stopped, and is started again against the
\* same store: the requests it was serving are gone, the tables stay.
Restart ==
  \E variant \in Variants :
    /\ boot[variant].main # "off"
    /\ boot[variant].starts < MaxStarts
    /\ boot' = [boot EXCEPT ![variant] = Started(variant, boot[variant].starts + 1)]
    /\ sessions' = pgSession(sessions)
    /\ inflight' = [s \in Slots |-> Idle]
    /\ pending' = [s \in 1..MaxPending |-> NoPending]
    /\ UNCHANGED <<users, userSeq, products, productSeq, sidSeq, destroyed,
                   now, schema, faults>>

\* A request of the JSON API reaches a listening process: its query fails with
\* 42P01, and the handler answers 500, when its table is not there yet.
ApiQuery(table) ==
  \E variant \in {"server.js", "part_001"} :
    /\ boot[variant].listening
    /\ faults' = IF table \in schema THEN faults
                 ELSE faults \cup {[by |-> "request", code |-> "42P01"]}
    /\ UNCHANGED <<users, userSeq, products, productSeq, sessions, sidSeq,
                   destroyed, now, inflight, schema, boot, pending>>

BootGetApiUsers == ApiUsers(users).status = 200 /\ ApiQuery("users")

BootGetApiProducts == ApiProducts(products).status = 200 /\ ApiQuery("products")

\* The session variant serves once its listener is bound.
BootAccept == boot["part_002"].listening /\ Accept(1)

BootPostRegister ==
  boot["part_002"].listening /\ PostRegister(FormRegisterBodies)

NextBoot ==
  \/ TestDBConnection
  \/ InitializeDBStep
  \/ SeedProductsStep
  \/ Listen
  \/ Restart
  \/ BootGetApiUsers
  \/ BootGetApiProducts
  \/ BootAccept
  \/ BootPostRegister

SpecBoot == InitBoot /\ [][NextBoot]_vars

\* The store fails under a request: the handler's pool.query rejects with one
\* of StoreErrors and the catch block answers.
ApiRoutes ==
  {"POST /api/register", "POST /api/login", "GET /api/users", "GET /api/products"}

\* A rejected store operation of a request, with the response it was given.
Fault(route, code, resp) == [by |-> route, code |-> code, resp |-> resp]

ApiFails ==
  \E route \in ApiRoutes, code \in StoreErrors :
    /\ Cardinality(faults) < MaxFaults
    /\ faults' = faults \cup {Fault(route, code, ApiCaught(route, code))}
    /\ UNCHANGED <<users, userSeq, products, productSeq, sessions, sidSeq,
                   destroyed, now, inflight, schema, boot, pending>>

FailingBodies(route) ==
  CASE route = "POST /register" -> FormRegisterBodies
    [] route = "POST /login" -> FormLoginBodies
    [] route = "POST /add-product" -> FormProductBodies
    [] OTHER -> {NoBody}

AnswerFails ==
  \E slot \in Slots, route \in QueryRoutes, code \in StoreErrors :
    \E body \in FailingBodies(route) :
      /\ inflight[slot].busy
      /\ ReachesStore(route, inflight[slot].user, body)
      /\ Cardinality(faults) < MaxFaults
      /\ \E r \in {ServeFailed(route, DB, sessions, sidSeq, inflight[slot],
                               code, now)} :
           /\ sessions' = r.sessions
           /\ faults' = faults \cup {Fault(route, code, r.resp)}
      /\ inflight' = [inflight EXCEPT ![slot] = Idle]
      /\ UNCHANGED <<users, userSeq, products, productSeq, sidSeq, destroyed,
                     now, schema, boot, pending>>

NextFault ==
  \/ ApiFails
  \/ AnswerFails
  \/ Accept(1)
  \/ PostRegister(FormRegisterBodies)
  \/ PostLogout

SpecFault == Init /\ [][NextFault]_vars

\* ------------------------------------------------------------------ claims

\* The session a request presenting the cookie tok gets right now.
Loaded(tok) == LoadSession(sessions, tok, now)

\* The response of one session-variant request served right now.
RespNow(route, tok, body) ==
  Serve(route, DB, sessions, sidSeq, Loaded(tok), body, "s1", now).resp

EmailStored(email) == UsersByEmail(users, email) # <<>>

\* A login that names a stored email and carries another password than the
\* one that was registered.
WrongPasswordLogin(b) ==
  /\ ~Falsy(b.email) /\ ~Falsy(b.password) /\ EmailStored(b.email)
  /\ ~BcryptCompare(b.password, UsersByEmail(users, b.email)[1].password_hash)

\* A login that names an email no stored user has.
UnknownEmailLogin(b) ==
  ~Falsy(b.email) /\ ~Falsy(b.password) /\ ~EmailStored(b.email)

\* C1: in every reachable state, a login with a stored email and a wrong
\* password and a login with an email that no user has get the same response:
\* the same status and body from POST /api/login, and from POST /login the
\* same redirect (and the same Set-Cookie) for the same presented cookie.
C1_SameLoginFailure ==
  \A b1, b2 \in LoginBodies :
    (WrongPasswordLogin(b1) /\ UnknownEmailLogin(b2)) =>
      /\ ApiLogin(users, b1) = ApiLogin(users, b2)
      /\ ApiLogin(users, b1) = Json(401, "Invalid credentials", NoUser, <<>>)
      /\ \A tok \in Tokens :
           RespNow("POST /login", tok, b1) = RespNow("POST /login", tok, b2)

\* Reached: one email is stored and another is not, the stored user holds a
\* session, and both kinds of failing login exist.
C1_Witness ==
  /\ \E b1, b2 \in LoginBodies : WrongPasswordLogin(b1) /\ UnknownEmailLogin(b2)
  /\ \E tok \in Tokens : Loaded(tok).user # NoUser

\* C2 (as stated): in every reachable state, a registration that carries a name
\* and a password and whose email is already stored is answered with the
\* duplicate-email error (409 "Email already registered" from the API, the
\* redirect to /register?error=Email already registered from the session
\* variant) and leaves the users table as it is.
C2_DuplicateEmailError ==
  \A body \in RegisterBodies :
    (~Falsy(body.name) /\ ~Falsy(body.password) /\ EmailStored(body.email)) =>
      /\ LET r == ApiRegister(users, userSeq,
                              [name |-> body.name, email |-> body.email,
                               password |-> body.password], "s1")
         IN /\ r.resp = Json(409, "Email already registered", NoUser, <<>>)
            /\ r.users = users
      /\ \A tok \in Tokens :
           LET r == Serve("POST /register", DB, sessions, sidSeq, Loaded(tok),
                          body, "s1", now)
           IN /\ r.resp.location = "/register?error=Email already registered"
              /\ r.db.users = users

\* C3: in every reachable state, for every body whose POST /api/register
\* succeeds (201), POST /api/login with the same email and password on the
\* resulting table succeeds (200) and returns the id that register returned.
C3_LoginAfterRegister ==
  \A body \in ApiRegisterBodies, salt \in Salts :
    LET r == ApiRegister(users, userSeq, body, salt)
        l == ApiLogin(r.users, [email |-> body.email, password |-> body.password])
    IN r.resp.status = 201 =>
         /\ l.status = 200
         /\ l.user.id = r.resp.user.id

\* Reached: two users are registered and the credentials of the second log in
\* as the second, while a further registration can still succeed or fail.
C3_Witness ==
  /\ Len(users) = 2
  /\ \E b \in LoginBodies :
       /\ ApiLogin(users, b).status = 200
       /\ ApiLogin(users, b).user.id = users[2].id

\* Whether a response carries a password hash: in its user object or in a row.
CarriesHash(resp) ==
  \/ "password_hash" \in DOMAIN resp.user
  \/ \E i \in 1..Len(resp.rows) : "password_hash" \in DOMAIN resp.rows[i]

\* C4: in every reachable state, no response of any route of either variant,
\* for any body and any presented cookie, carries a password hash, and no
\* session row does.
C4_HashNeverLeaves ==
  /\ \A body \in ApiRegisterBodies, salt \in Salts :
       ~CarriesHash(ApiRegister(users, userSeq, body, salt).resp)
  /\ \A body \in LoginBodies : ~CarriesHash(ApiLogin(users, body))
  /\ ~CarriesHash(ApiUsers(users))
  /\ ~CarriesHash(ApiProducts(products))
  /\ \A tok \in Tokens :
       /\ \A route \in {"GET /", "GET /register", "GET /user/dashboard",
                          "GET /farm/dashboard", "POST /logout"} :
            ~CarriesHash(RespNow(route, tok, NoBody))
       /\ \A q \in LoginQueries : ~CarriesHash(RespNow("GET /login", tok, q))
       /\ \A body \in RegisterBodies :
            LET r == Serve("POST /register", DB, sessions, sidSeq, Loaded(tok),
                           body, "s1", now)
            IN /\ ~CarriesHash(r.resp)
               /\ \A sid \in Sids : "password_hash" \notin DOMAIN r.sessions[sid]
       /\ \A body \in LoginBodies :
            LET r == Serve("POST /login", DB, sessions, sidSeq, Loaded(tok),
                           body, "s1", now)
            IN /\ ~CarriesHash(r.resp)
               /\ \A sid \in Sids :
                    r.sessions[sid] # NoRow =>
                      "password_hash" \notin DOMAIN r.sessions[sid].user
       /\ \A body \in ProductBodies :
            ~CarriesHash(RespNow("POST /add-product", tok, body))
  /\ \A sid \in Sids :
       sessions[sid] # NoRow => "password_hash" \notin DOMAIN sessions[sid].user

\* Reached: a user row with its hash is stored, a login of that user succeeds,
\* and sessions of a user and of a farm, which see the dashboards, exist.
C4_Witness ==
  /\ \E i \in 1..Len(users) : "password_hash" \in DOMAIN users[i]
  /\ \E b \in LoginBodies : ApiLogin(users, b).status = 200
  /\ \E t1, t2 \in Tokens :
       /\ RespNow("GET /user/dashboard", t1, NoBody).status = 200
       /\ RespNow("GET /farm/dashboard", t2, NoBody).status = 200

\* The role each protected route of the session variant asks for.
RequiredRole(route) == IF route = "GET /user/dashboard" THEN "user" ELSE "farm"

ProtectedRoutes == {"GET /user/dashboard", "GET /farm/dashboard", "POST /add-product"}

ProtectedBodies(route) ==
  IF route = "POST /add-product" THEN ProductBodies ELSE {NoBody}

\* C5: in every reachable state and on every protected route, a request whose
\* session carries a user of another role than the required one gets exactly
\* the response of a request that presents no cookie.
C5_WrongRoleAsNoSession ==
  \A route \in ProtectedRoutes, tok \in Tokens :
    (Loaded(tok).user # NoUser /\ Loaded(tok).user.role # RequiredRole(route)) =>
      \A body \in ProtectedBodies(route) :
        RespNow(route, tok, body) = RespNow(route, 0, body)

\* Reached: a farm session and a user session exist, so each dashboard is asked
\* for by the other role, and an in-flight request has loaded the farm session.
C5_Witness ==
  /\ \E t1, t2 \in Tokens :
       /\ Loaded(t1).user # NoUser /\ Loaded(t1).user.role = "farm"
       /\ Loaded(t2).user # NoUser /\ Loaded(t2).user.role = "user"
  /\ \E slot \in Slots :
       inflight[slot].user # NoUser /\ inflight[slot].user.role = "farm"

\* An in-flight request whose loaded session carries a user of role farm.
FarmRequest(slot) ==
  /\ inflight[slot].busy
  /\ inflight[slot].user # NoUser
  /\ inflight[slot].user.role = "farm"

\* C6: every step that changes the products table is the answer to a POST
\* /add-product request whose session, as the middleware loaded it, carries a
\* user of role farm, and the step appends one row and touches no other; so
\* every row is a seeded row or a row added by a farm session.
C6_OnlyFarmAddsProducts ==
  [][products' # products =>
       \E slot \in Slots, body \in ProductBodies :
         /\ FarmRequest(slot)
         /\ ~inflight'[slot].busy
         /\ products' = InsertProduct(products, productSeq, body)]_vars

\* Reached: a product was added to the seeded six, and sessions of users of
\* another role than farm exist as well.
C6_Witness ==
  /\ Len(products) > Len(SeedProducts)
  /\ \E tok \in Tokens : Loaded(tok).user # NoUser /\ Loaded(tok).user.role = "user"

\* C7 (as stated): a sid that POST /logout has destroyed has no row in the
\* session table in any later state, so a request presenting it loads no user.
C7_DestroyedIsTerminal ==
  \A sid \in destroyed :
    sessions[sid] = NoRow /\ Loaded(sid).user = NoUser

\* The credentials of body are those of a stored user.
GoodCredentials(body) ==
  \E i \in 1..Len(users) :
    /\ users[i].email = body.email
    /\ ~Falsy(body.password)
    /\ BcryptCompare(body.password, users[i].password_hash)

SessionRoutes ==
  {"GET /", "GET /register", "GET /login", "GET /user/dashboard",
   "GET /farm/dashboard", "POST /logout", "POST /register", "POST /login",
   "POST /add-product"}

BodiesOf(route) ==
  CASE route = "GET /login" -> LoginQueries
    [] route = "POST /register" -> RegisterBodies
    [] route = "POST /login" -> LoginBodies
    [] route = "POST /add-product" -> ProductBodies
    [] OTHER -> {NoBody}

\* The requests that can be answered now: one per cookie a client can present,
\* loaded now, and the requests in flight with the session they loaded.
RequestsNow ==
  {Loaded(tok) : tok \in Tokens}
    \cup {inflight[slot] : slot \in {x \in Slots : inflight[x].busy}}

\* C8: in every reachable state and for every request that can be answered
\* now, on any route with any body: if its response gives a row to a sid that
\* has none in the session table (a session becomes Active), the request is a
\* POST /login with right credentials or a POST /register that inserted a
\* user, and the row carries a stored user's {id, name, email, role}.
C8_ActiveOnlyByLoginOrRegister ==
  \A req \in RequestsNow :
    \A route \in SessionRoutes :
      \A body \in BodiesOf(route) :
        \E r \in {Serve(route, DB, sessions, sidSeq, req, body, "s1", now)} :
          \A sid \in Sids :
            (sessions[sid] = NoRow /\ r.sessions[sid] # NoRow) =>
              /\ \/ route = "POST /login" /\ GoodCredentials(body)
                 \/ /\ route = "POST /register"
                    /\ Len(r.db.users) = Len(users) + 1
              /\ \E i \in 1..Len(r.db.users) :
                   r.sessions[sid].user = Principal(r.db.users[i])

\* Reached: one session was opened by a register and another by a login, after
\* a logout.
C8_Witness ==
  /\ sidSeq > 2
  /\ destroyed # {}
  /\ \E sid \in Sids : sessions[sid] # NoRow

\* C9 (as stated): a step that leaves a session row with the same user leaves
\* its expire as it was: no request made with a session moves its expiry.
C9_ExpiryFixedAtCreation ==
  [][\A sid \in Sids :
       (/\ sessions[sid] # NoRow
        /\ sessions'[sid] # NoRow
        /\ sessions'[sid].user = sessions[sid].user) =>
         sessions'[sid].expire = sessions[sid].expire]_vars

\* A cookie whose session row is still in the table and whose expire has passed.
Expired(tok) ==
  tok # 0 /\ sessions[tok] # NoRow /\ sessions[tok].expire < now

\* C10: in every reachable state, a request that presents a cookie whose
\* expire has passed is given the session of a request with no cookie, every
\* route answers it as it answers a request with no cookie (the protected
\* routes reject it), and its response leaves the expired row as it was.
C10_ExpiredAsNoSession ==
  \A tok \in Tokens :
    Expired(tok) =>
      /\ Loaded(tok).user = NoUser
      /\ Loaded(tok).sid = 0
      /\ \A route \in SessionRoutes :
           \A body \in BodiesOf(route) :
             LET r == Serve(route, DB, sessions, sidSeq, Loaded(tok), body, "s1", now)
                 n == Serve(route, DB, sessions, sidSeq, Loaded(0), body, "s1", now)
             IN /\ r.resp = n.resp
                /\ r.sessions[tok] = sessions[tok]
      /\ RespNow("GET /user/dashboard", tok, NoBody)
           = Redirect("/login?error=Unauthorized access")

\* Reached: a request is in flight that presented a cookie whose expire had
\* passed, and the middleware gave it a fresh session.
C10_Witness ==
  \E slot \in Slots :
    /\ inflight[slot].busy
    /\ Expired(inflight[slot].tok)
    /\ inflight[slot].sid = 0

\* C13: in every reachable state, for every request that can be answered now
\* and every body: if POST /register inserts a users row, its response sets
\* the requester's cookie to a sid whose session row is live and carries the
\* {id, name, email, role} of the row just inserted.
C13_RegisterEstablishesSession ==
  \A req \in RequestsNow :
    \A body \in RegisterBodies :
      \E r \in {Serve("POST /register", DB, sessions, sidSeq, req, body, "s1", now)} :
        (Len(r.db.users) = Len(users) + 1 /\ r.sseq <= MaxSid + 1) =>
          \E sid \in Sids :
            /\ r.resp.cookie.sid = sid
            /\ r.resp.location = "/user/dashboard"
            /\ LoadSession(r.sessions, sid, now).user
                 = Principal(r.db.users[Len(r.db.users)])
            /\ r.sessions[sid].user.email = body.email
            /\ r.sessions[sid].user.id = userSeq

\* Reached: the user created last holds a live session whose Principal is the
\* projection of their row.
C13_Witness ==
  /\ users # <<>>
  /\ \E tok \in Tokens :
       /\ tok # 0
       /\ Loaded(tok).user = Principal(users[Len(users)])
       /\ \A i \in 1..(Len(users) - 1) :
            \A other \in Tokens : Loaded(other).user # Principal(users[i])

InvalidRegister(b) == Falsy(b.name) \/ Falsy(b.email) \/ Falsy(b.password)
InvalidLogin(b) == Falsy(b.email) \/ Falsy(b.password)

\* POST /register and POST /login bodies that fail the handlers' validation.
InvalidBodies(route) ==
  IF route = "POST /register"
  THEN {b \in RegisterBodies : InvalidRegister(b)}
  ELSE {b \in LoginBodies : InvalidLogin(b)}

\* C14 (as stated): in every reachable state, a register or login whose
\* required fields are missing or empty gets the validation error (400 in the
\* API variant) and leaves users, products and sessions exactly as they were.
C14_ValidationWritesNothing ==
  /\ \A body \in {b \in ApiRegisterBodies : InvalidRegister(b)} :
       \E r \in {ApiRegister(users, userSeq, body, "s1")} :
         r.resp.status = 400 /\ r.users = users /\ r.seq = userSeq
  /\ \A body \in {b \in LoginBodies : InvalidLogin(b)} :
       ApiLogin(users, body).status = 400
  /\ \A req \in RequestsNow :
       \A route \in {"POST /register", "POST /login"} :
         \A body \in InvalidBodies(route) :
           \E r \in {Serve(route, DB, sessions, sidSeq, req, body, "s1", now)} :
             /\ r.resp.status = 302
             /\ r.resp.location \in
                  {"/register?error=Name, email, and password are required.",
                   "/login?error=Email and password required"}
             /\ r.db = DB
             /\ r.sessions = sessions

\* C15 (as stated): every stored user's role is "user" or "farm", and a
\* register whose body names no role stores "user".
C15_RoleUserOrFarm ==
  /\ \A i \in 1..Len(users) : users[i].role \in {"user", "farm"}
  /\ \A body \in {b \in RegisterBodies : Falsy(b.role)} :
       \E r \in {Register(DB, NoUser, body, "s1")} :
         Len(r.db.users) = Len(users) + 1 =>
           r.db.users[Len(r.db.users)].role = "user"

\* The rows of a users listing are the {id, name, email} of each stored user,
\* one per user.
ListsUsers(rows) ==
  /\ Len(rows) = Len(users)
  /\ \A i \in 1..Len(rows) :
       /\ DOMAIN rows[i] = {"id", "name", "email"}
       /\ rows[i].id = users[i].id

\* C20 (as stated): every users listing, GET /api/users and the users handed
\* to the farm dashboard, carries only id, name and email, one entry per
\* stored user.
C20_ListingOnlyIdNameEmail ==
  /\ ListsUsers(ApiUsers(users).rows)
  /\ \A tok \in Tokens :
       \E r \in {RespNow("GET /farm/dashboard", tok, NoBody)} :
         r.view = "farm_dashboard.ejs" => ListsUsers(r.rows)

\* The rows of products that carry the name of the seeded product i.
RowsNamed(i) ==
  {j \in 1..Len(products) : products[j].name = SeedProducts[i].name}

\* C11 (as stated): however many times seedProducts has run, restarts
\* included, products holds at most one row per seeded product name.
C11_SeedingIdempotent ==
  \A i \in 1..Len(SeedProducts) : Cardinality(RowsNamed(i)) <= 1

\* C12 (as stated): with registrations overlapping, no two stored users share
\* an id or an email, and of two requests in flight that carry the same
\* email, not yet stored, the one whose INSERT runs first gets 201 and the
\* other gets 409.
C12_ConcurrentRegister ==
  /\ \A i, j \in 1..Len(users) :
       i # j => users[i].id # users[j].id /\ users[i].email # users[j].email
  /\ \A s1, s2 \in 1..MaxPending :
       ( /\ s1 # s2
         /\ pending[s1].busy
         /\ pending[s2].busy
         /\ pending[s1].body.email = pending[s2].body.email
         /\ ~EmailStored(pending[s1].body.email) ) =>
         \E r1 \in {ApiInsertUser(users, userSeq, pending[s1].body, pending[s1].hash)} :
           \E r2 \in {ApiInsertUser(r1.users, r1.seq, pending[s2].body, pending[s2].hash)} :
             r1.resp.status = 201 /\ r2.resp.status = 409

\* The six seeded products are in the products table.
SeedPresent == \A i \in 1..Len(SeedProducts) : RowsNamed(i) # {}

\* C16: in the startServer variants the startup calls complete in the order
\* testDBConnection, initializeDB, seedProducts, listen; a bound listener finds
\* the tables created and the products seeded; and a process whose probe
\* failed has exited with nothing done, no listener and no request in hand.
C16_ListenAfterStartup ==
  \A v \in Awaited :
    /\ \E n \in 0..4 :
         boot[v].log = SubSeq(<<"testDBConnection", "initializeDB",
                                "seedProducts", "listen">>, 1, n)
    /\ boot[v].listening =>
         /\ Len(boot[v].log) = 4
         /\ {"users", "products"} \subseteq schema
         /\ SeedPresent
    /\ boot[v].main = "exited" =>
         /\ ~boot[v].listening
         /\ boot[v].log = <<>>
         /\ \A slot \in Slots : ~inflight[slot].busy

\* Reached: a startServer process has bound its listener.
C16_Witness ==
  \E v \in Awaited : boot[v].listening /\ boot[v].main = "done"

\* The store as a completed startup of variant v leaves it.
StartupCompleted(v) ==
  /\ {"users", "products"} \subseteq schema
  /\ v = "part_002" => {"session", "IDX_session_expire"} \subseteq schema
  /\ SeedPresent

\* C17 (as stated): a step of the startup sequence that runs against a store
\* on which the sequence already completed raises no error, leaves the schema
\* as it is and does not end the process.
C17_StartupIdempotent ==
  [][\A v \in Awaited :
       (StartupCompleted(v) /\ boot[v].main \in {"probe", "init", "seed", "listen"}) =>
          /\ boot'[v].main # "crashed"
          /\ schema' = schema
          /\ faults' = faults]_vars

\* C18 (as stated): in the variant that awaits nothing, no seed insert and no
\* request query is rejected for a missing table, seedProducts is not
\* rejected, and once it has completed the six products are present.
C18_UnawaitedStartupSafe ==
  boot["part_001"].main # "off" =>
    /\ \A f \in faults : f.code # "42P01"
    /\ boot["part_001"].seed # -1
    /\ boot["part_001"].seed = Len(SeedProducts) + 1 => SeedPresent

\* C19: a step that starts the server process again leaves the session table
\* as it is: every cookie loads the session, with the same sid and the same
\* Principal, that it loaded before the restart.
C19_SessionsSurviveRestart ==
  [][\A v \in Variants :
       boot'[v].starts > boot[v].starts =>
         /\ sessions' = sessions
         /\ \A tok \in Tokens :
              LoadSession(sessions', tok, now') = LoadSession(sessions, tok, now)]_vars

\* Reached: the session variant was started again while the store held a live
\* session.
C19_Witness ==
  /\ boot["part_002"].starts > 1
  /\ \E tok \in Tokens : tok # 0 /\ Loaded(tok).user # NoUser

\* The response the catch block of route gives, whatever it caught.
GenericError(route) ==
  CASE route \in ApiRoutes -> Json(500, "Internal server error", NoUser, <<>>)
    [] route = "POST /register" -> Redirect("/register?error=Internal server error")
    [] route = "POST /login" -> Redirect("/login?error=Internal server error")
    [] route = "POST /logout" -> Send(500, "Could not log out.")
    [] OTHER -> Send(500, "Internal server error")

\* C21: a step in which a request's store operation fails answers with the
\* fixed error of its route (500 {error: "Internal server error"} in the JSON
\* API), the same for every error code, writes nothing to users or products,
\* and leaves the server processes as they were, listening.
C21_GenericStoreError ==
  [][\A f \in faults' \ faults :
       /\ f.resp = GenericError(f.by)
       /\ \A g \in faults' : g.by = f.by => g.resp = f.resp
       /\ users' = users /\ products' = products
       /\ boot' = boot
       /\ boot'["server.js"].listening /\ boot'["part_002"].listening]_vars

\* Reached: one route of the session variant has failed with two different
\* error codes.
C21_Witness ==
  \E f, g \in faults :
    f.by = g.by /\ f.code # g.code /\ f.by \in QueryRoutes

\* C22: in every reachable state, for every request that can be answered now:
\* a 201 from /api/register comes with the row in users, so that the listing
\* and a login on the resulting table see it; the success redirect of
\* /register comes with the row in users; the success redirect of
\* /add-product comes with the row in products and in the products listing.
C22_WriteBeforeResponse ==
  /\ \A body \in ApiRegisterBodies :
       \E r \in {ApiRegister(users, userSeq, body, "s1")} :
         r.resp.status = 201 =>
           /\ \E i \in 1..Len(r.users) : Principal(r.users[i]) = r.resp.user
           /\ \E i \in 1..Len(r.users) : ApiUsers(r.users).rows[i].id = r.resp.user.id
           /\ ApiLogin(r.users, [email |-> body.email, password |-> body.password]).status = 200
  /\ \A req \in RequestsNow :
       /\ \A body \in RegisterBodies :
            \E r \in {Serve("POST /register", DB, sessions, sidSeq, req, body, "s1", now)} :
              r.resp.location = "/user/dashboard" =>
                \E i \in 1..Len(r.db.users) :
                  r.db.users[i].email = body.email /\ r.db.users[i].id = userSeq
       /\ \A body \in ProductBodies :
            \E r \in {Serve("POST /add-product", DB, sessions, sidSeq, req, body, "", now)} :
              r.resp.location = "/farm/dashboard" =>
                /\ Len(r.db.products) = Len(products) + 1
                /\ r.db.products[Len(r.db.products)].name = body.name
                /\ ApiProducts(r.db.products).rows[Len(r.db.products)].id = productSeq

\* Reached: a user has registered and a farm session is there to add a product.
C22_Witness ==
  /\ users # <<>>
  /\ Len(products) > Len(SeedProducts)
  /\ \E tok \in Tokens : Loaded(tok).user # NoUser /\ Loaded(tok).user.role = "farm"

\* C23: a step that changes users is a register (POST /api/register or POST
\* /register) and appends one row after the rows that were there, which stay
\* as they were.
C23_UsersOnlyAppended ==
  [][users' # users =>
       /\ Len(users') = Len(users) + 1
       /\ SubSeq(users', 1, Len(users)) = users
       /\ ~EmailStored(users'[Len(users')].email)
       /\ PostApiRegister \/ PostRegister(RegisterBodies)]_vars

\* Reached: two users are stored and a third register, for a stored email, has
\* drawn an id and left the rows as they were.
C23_Witness ==
  /\ Len(users) = 2
  /\ userSeq > 3
  /\ sidSeq > 1

\* C24: in every reachable state each row of the session table carries the
\* {id, name, email, role} of exactly one row of users.
C24_SessionPrincipalIsUser ==
  \A sid \in Sids :
    sessions[sid] # NoRow =>
      Cardinality({i \in 1..Len(users) : Principal(users[i]) = sessions[sid].user}) = 1

\* Reached: a farm user logged in after a logout and holds the session.
C24_Witness ==
  /\ destroyed # {}
  /\ \E sid \in Sids :
       /\ sessions[sid] # NoRow
       /\ sessions[sid].user.role = "farm"
       /\ sid \notin destroyed

\* C25 (as stated): a protected route asked for without a session redirects
\* to the login page when it is a rendered route (the dashboards) and answers
\* 401 with a fixed text when it is not (POST /add-product).
C25_NoSessionRejection ==
  \A route \in ProtectedRoutes :
    \A body \in ProtectedBodies(route) :
      \E r \in {RespNow(route, 0, body)} :
        IF route = "POST /add-product"
        THEN r.status = 401 /\ r.text = "Unauthorized"
        ELSE r = Redirect("/login?error=Unauthorized access")

\* C26 (as stated): a login with an unknown email and a login with a wrong
\* password await the same operations before they respond.
C26_SameLoginWork ==
  \A b1, b2 \in LoginBodies :
    (UnknownEmailLogin(b1) /\ WrongPasswordLogin(b2)) =>
      LoginWork(users, b1) = LoginWork(users, b2)

\* C27: in every reachable state, for every request that can be answered now
\* and every body: a POST /register that inserts a row redirects to
\* /user/dashboard whatever role it stored; the GET /user/dashboard that
\* follows with the new cookie is rendered when the role is "user" and is
\* otherwise sent to /login, although the session is live.
C27_RegisterLandsOnUserDashboard ==
  \A req \in RequestsNow :
    \A body \in RegisterBodies :
      \E r \in {Serve("POST /register", DB, sessions, sidSeq, req, body, "s1", now)} :
        (Len(r.db.users) = Len(users) + 1 /\ r.sseq <= MaxSid + 1) =>
          \E next \in {LoadSession(r.sessions, r.resp.cookie.sid, now)} :
            \E page \in {Serve("GET /user/dashboard", r.db, r.sessions, r.sseq,
                               next, NoBody, "", now).resp} :
              /\ r.resp.location = "/user/dashboard"
              /\ next.user # NoUser
              /\ next.user.role = RoleOrDefault(body.role)
              /\ IF next.user.role = "user"
                 THEN page.view = "user_dashboard.ejs"
                 ELSE page = Redirect("/login?error=Unauthorized access")

\* Reached: a user who registered with role farm holds a live session and no
\* logout has happened.
C27_Witness ==
  /\ destroyed = {}
  /\ \E tok \in Tokens :
       /\ Loaded(tok).user # NoUser
       /\ Loaded(tok).user.role = "farm"
       /\ RespNow("GET /user/dashboard", tok, NoBody).status = 302

\* The session table associates the same sids with the same users in S and T.
SameSessions(S, T) ==
  \A sid \in Sids :
    /\ (S[sid] = NoRow) = (T[sid] = NoRow)
    /\ S[sid] # NoRow => S[sid].user = T[sid].user

\* C28: in every reachable state, for every request that can be answered now:
\* a POST /login or POST /register that does not end in a dashboard redirect,
\* or whose store operation fails, sets no cookie, draws no sid and leaves
\* every session with the user it had; the cookie the request presented loads
\* the same user afterwards.
C28_FailureKeepsSession ==
  \A req \in RequestsNow :
    \A route \in {"POST /login", "POST /register"} :
      \A body \in BodiesOf(route) :
        /\ \E r \in {Serve(route, DB, sessions, sidSeq, req, body, "s1", now)} :
             r.resp.location \notin {"/user/dashboard", "/farm/dashboard"} =>
               /\ r.resp.cookie = NoCookie
               /\ r.sseq = sidSeq
               /\ SameSessions(r.sessions, sessions)
               /\ LoadSession(r.sessions, req.tok, now).user = Loaded(req.tok).user
        /\ \A code \in StoreErrors :
             \E r \in {ServeFailed(route, DB, sessions, sidSeq, req, code, now)} :
               /\ r.resp.cookie = NoCookie
               /\ r.sseq = sidSeq
               /\ SameSessions(r.sessions, sessions)
               /\ LoadSession(r.sessions, req.tok, now).user = Loaded(req.tok).user

\* Reached: a request that loaded a live session is in flight while another
\* user is stored, so a login with that user's email and a wrong password, and
\* a register with a stored email, can fail under a session.
C28_Witness ==
  /\ Len(users) >= 2
  /\ \E slot \in Slots :
       /\ inflight[slot].busy
       /\ inflight[slot].user # NoUser
       /\ \E i \in 1..Len(users) : users[i].email # inflight[slot].user.email

\* The GET request a client makes when it follows a redirect to location.
Followed(location) ==
  CASE location = "/" -> [route |-> "GET /", body |-> NoBody]
    [] location = "/register" -> [route |-> "GET /register", body |-> NoBody]
    [] location = "/login" -> [route |-> "GET /login", body |-> [error |-> ""]]
    [] location = "/user/dashboard" -> [route |-> "GET /user/dashboard", body |-> NoBody]
    [] location = "/farm/dashboard" -> [route |-> "GET /farm/dashboard", body |-> NoBody]
    [] OTHER -> [route |-> "GET /login", body |-> [error |-> "Unauthorized access"]]

\* The number of redirects a client with the session user follows from a GET
\* of route until a response that is not a redirect; -1 when more than n.
RECURSIVE Hops(_, _, _, _)
Hops(route, body, user, n) ==
  LET resp == Handle(route, DB, user, body, "").resp
  IN IF resp.status # 302 THEN 0
     ELSE IF n = 0 THEN -1
     ELSE LET to == Followed(resp.location)
              rest == Hops(to.route, to.body, user, n - 1)
          IN IF rest = -1 THEN -1 ELSE rest + 1

GetRoutes ==
  {"GET /", "GET /login", "GET /register", "GET /user/dashboard",
   "GET /farm/dashboard"}

\* C29: in every reachable state, from any GET route and with any cookie, a
\* client that follows the redirects gets a response that is not a redirect
\* after at most two of them.
C29_NoRedirectLoop ==
  \A tok \in Tokens :
    \A route \in GetRoutes :
      \A body \in BodiesOf(route) :
        Hops(route, body, Loaded(tok).user, MaxHops) \in 0..2

\* Reached: a session with a role that is neither user nor farm is live, and
\* from / it takes two redirects to reach the login page.
C29_Witness ==
  \E tok \in Tokens :
    /\ Loaded(tok).user # NoUser
    /\ Loaded(tok).user.role \notin {"user", "farm"}
    /\ Hops("GET /", NoBody, Loaded(tok).user, MaxHops) = 2

InvalidProduct(b) == Falsy(b.name) \/ Falsy(b.price) \/ Falsy(b.image_url)

\* C30: in every reachable state, for every request that can be answered now
\* and every body: POST /add-product answers 403 "Unauthorized" and writes
\* nothing unless the session's role is farm, whatever the body; it answers
\* 400 exactly when the role is farm and a field is missing, and then writes
\* nothing either.
C30_AuthorizationBeforeValidation ==
  \A req \in RequestsNow :
    \A body \in ProductBodies :
      \E r \in {Serve("POST /add-product", DB, sessions, sidSeq, req, body, "", now)} :
        /\ (req.user = NoUser \/ req.user.role # "farm") =>
             r.resp = Send(403, "Unauthorized") /\ r.db = DB
        /\ r.resp.status = 400 =>
             /\ req.user # NoUser
             /\ req.user.role = "farm"
             /\ InvalidProduct(body)
             /\ r.db = DB
        /\ (req.user # NoUser /\ req.user.role = "farm" /\ InvalidProduct(body)) =>
             r.resp = Send(400, "Name, price, and image URL are required.")

\* Reached: a request that loaded a farm session is in flight, and a cookie of
\* a session with another role exists.
C30_Witness ==
  /\ \E slot \in Slots :
       inflight[slot].busy /\ inflight[slot].user # NoUser
         /\ inflight[slot].user.role = "farm"
  /\ \E tok \in Tokens :
       Loaded(tok).user # NoUser /\ Loaded(tok).user.role # "farm"

====
